---- MODULE Spec2Model ----
(***************************************************************************)
(* Model of convert_images.process_directory: recursive discovery of       *)
(* HEIC/HEIF or CR2 files, mapping of each file to its PNG output path,    *)
(* creation of the output directories, and conversion of the tasks on a    *)
(* concurrent.futures.ThreadPoolExecutor with collection of the results.   *)
(*                                                                         *)
(* A path is a record [parts, name]: parts is the sequence of directory    *)
(* components, name is the file name split at its dots, so that "x.heic"   *)
(* is <<"x", "heic">>, ".heic" is <<"", "heic">> and "a.b.heic" is         *)
(* <<"a", "b", "heic">>.  A directory is the sequence of its components.   *)
(***************************************************************************)
EXTENDS Integers, Sequences, FiniteSets, TLC

\* ---------------------------------------------------------------- bounds
MaxFiles == 2       \* files in the input tree
MaxTasks == 4       \* entries the discovery may list (a file may be listed twice)
MaxWorkers == 2     \* largest pool size tried
MaxPromptFiles == 1 \* files in the input tree of an interactive run

\* ---------------------------------------------------------------- inputs
input_dir == <<"in">>
output_dir == <<"out">>

File(parts, name) == [parts |-> parts, name |-> name]

\* The files an input tree is drawn from: one stem with extensions of the
\* HEIC family in several casings, a name that is only an extension, a file
\* in a subdirectory, and the CR2 family.
FileUniverse ==
    { File(<<"in">>, <<"x", "heic">>),
      File(<<"in">>, <<"x", "HEIF">>),
      File(<<"in">>, <<"x", "Heic">>),
      File(<<"in">>, <<"", "heic">>),
      File(<<"in", "a">>, <<"y", "heic">>),
      File(<<"in">>, <<"x", "cr2">>),
      File(<<"in", "a">>, <<"x", "CR2">>) }

\* str.lower() on the name segments that occur.
Lower(s) ==
    CASE s \in {"heic", "HEIC", "Heic"} -> "heic"
      [] s \in {"heif", "HEIF"} -> "heif"
      [] s \in {"cr2", "CR2"} -> "cr2"
      [] OTHER -> s

LowerName(name) == [k \in 1..Len(name) |-> Lower(name[k])]

\* A case-insensitive file system holds no two names equal up to case.
ValidTree(t, cs) ==
    cs \/ \A f, g \in t :
            (f.parts = g.parts /\ LowerName(f.name) = LowerName(g.name)) => f = g

Trees == { t \in SUBSET FileUniverse : Cardinality(t) <= MaxFiles }

Outcomes == {"ok", "decode_error", "save_error"}

\* Values of the conversion_type argument: the two documented ones and one
\* that is neither.
ConversionTypes == {"HEIC", "CR2", "heic"}

VARIABLES
    conversion_type,   \* 'HEIC' or 'CR2'
    max_workers,       \* size of the pool
    caseSensitive,     \* whether Path.glob matches case-sensitively (POSIX) or not (Windows)
    tree,              \* the files under input_dir
    dirs,              \* the directories that exist under the output side
    outFiles,          \* the output files written so far
    pc,                \* position of process_directory
    extIdx,            \* index of the extension the discovery loop is at
    files,             \* the discovered files, in order
    conversion_tasks,  \* the (input, output) pairs, in order
    futures,           \* one future per submitted task: state, result, exc, the
                       \* function submitted (fn), whether the conversion inside
                       \* the call failed (error), how often the function was
                       \* called (calls) and the future was yielded (yields)
    work_queue,        \* the executor's FIFO queue of task indices
    num_threads,       \* worker threads the executor has started
    idle_semaphore,    \* the executor's count of idle workers
    collected,         \* indices of the futures as_completed has yielded
    successful,
    failed,
    pbar,              \* progress bar position
    raised,            \* the exception that left process_directory, or "none"
    reported,          \* the printed tally, or <<>>
    mainPc,            \* position of the __main__ block; "imported" when the
                       \* module is imported and the block does not run
    answers            \* the variables the __main__ block has bound so far

vars == <<conversion_type, max_workers, caseSensitive, tree, dirs, outFiles, pc,
          extIdx, files, conversion_tasks, futures, work_queue, num_threads,
          idle_semaphore, collected, successful, failed, pbar, raised, reported,
          mainPc, answers>>

inputVars == <<conversion_type, max_workers, caseSensitive, tree, mainPc, answers>>
poolVars == <<futures, work_queue, num_threads, idle_semaphore>>
tallyVars == <<collected, successful, failed, pbar>>

\* ------------------------------------------------------------ path helpers
Front(s) == SubSeq(s, 1, Len(s) - 1)
Last(s) == s[Len(s)]

IsPrefix(p, s) == Len(p) <= Len(s) /\ SubSeq(s, 1, Len(p)) = p

\* PurePath.suffix: the part from the last dot on, unless that dot is the
\* first or the last character of the name.
HasSuffix(name) ==
    /\ Len(name) >= 2
    /\ Last(name) # ""
    /\ ~(Len(name) = 2 /\ name[1] = "")

\* PurePath.with_suffix(suffix): the suffix replaces the old one, and is
\* appended when the name has none.
with_suffix(name, suffix) ==
    IF HasSuffix(name) THEN Append(Front(name), suffix) ELSE Append(name, suffix)

\* PurePath.relative_to(root): the path below root.
relative_to(path, root) == File(SubSeq(path.parts, Len(root) + 1, Len(path.parts)), path.name)

\* Lines 87-88: the output path of one discovered file.
MapOutput(file_path) ==
    LET relative_path == relative_to(file_path, input_dir)
    IN File(output_dir \o relative_path.parts, with_suffix(relative_path.name, "png"))

\* Mutation: the HEIF patterns are left out.
extensions_no_heif(ct) ==
    IF ct = "HEIC" THEN <<"heic", "HEIC">> ELSE <<"cr2", "CR2">>

\* Lines 70: the extension list of a conversion type.
extensions(ct) ==
    IF ct = "HEIC" THEN <<"heic", "HEIC", "heif", "HEIF">> ELSE <<"cr2", "CR2">>

\* Mutation: the pattern is matched up to case on every platform.
Matches_folded(name, ext, cs) ==
    /\ Len(name) >= 2
    /\ Lower(Last(name)) = Lower(ext)

\* The name matches the pattern '*.ext'.
Matches(name, ext, cs) ==
    /\ Len(name) >= 2
    /\ IF cs THEN Last(name) = ext ELSE Lower(Last(name)) = Lower(ext)

\* Path(input_dir).glob('**/*.ext'): the matching files anywhere below input_dir.
glob(t, ext, cs) == { f \in t : IsPrefix(input_dir, f.parts) /\ Matches(f.name, ext, cs) }

\* Lines 73-75: how many entries the discovery loop lists from extension k on.
RECURSIVE Discovered(_, _, _, _)
Discovered(t, exts, cs, k) ==
    IF k > Len(exts) THEN 0
    ELSE Cardinality(glob(t, exts[k], cs)) + Discovered(t, exts, cs, k + 1)

\* The orders a directory scan may list a set of files in.
Orders(S) ==
    { s \in [1..Cardinality(S) -> S] : \A i, j \in 1..Cardinality(S) : i # j => s[i] # s[j] }

\* A directory and the directories above it.
Ancestors(d) == { SubSeq(d, 1, k) : k \in 1..Len(d) }

\* Mutation: the mkdir call is left out.
mkdir_omitted(existing, d) == existing

\* Path.mkdir(parents=True, exist_ok=True): the directory and its ancestors exist.
mkdir(existing, d) == existing \cup Ancestors(d)

\* ------------------------------------------------------------------ adapters
\* Lines 14-29 and 31-54: what the call hands to its future.
Returned(v) == [result |-> v, exc |-> FALSE]
Raised == [result |-> FALSE, exc |-> TRUE]

\* Mutation: only the failure to open the image is caught.
convert_heic_to_png_save_uncaught(outcome) ==
    IF outcome = "ok" THEN Returned(TRUE)
    ELSE IF outcome = "decode_error" THEN Returned(FALSE) ELSE Raised

convert_heic_to_png(outcome) ==
    IF outcome = "ok" THEN Returned(TRUE) ELSE Returned(FALSE)

\* Mutation: the handler reports the error and re-raises it.
convert_cr2_to_png_reraise(outcome) ==
    IF outcome = "ok" THEN Returned(TRUE) ELSE Raised

convert_cr2_to_png(outcome) ==
    IF outcome = "ok" THEN Returned(TRUE) ELSE Returned(FALSE)

\* Mutation: the CR2 function is chosen by a test of its own.
conversion_func_unless_cr2(ct) ==
    IF ct = "CR2" THEN "convert_cr2_to_png" ELSE "convert_heic_to_png"

\* Line 96: the function submitted for every task of the run.
conversion_func(ct) ==
    IF ct = "HEIC" THEN "convert_heic_to_png" ELSE "convert_cr2_to_png"

\* The call of a submitted function.
Call(fn, outcome) ==
    IF fn = "convert_heic_to_png" THEN convert_heic_to_png(outcome)
    ELSE convert_cr2_to_png(outcome)

\* ------------------------------------------------------------------ derived
Taken == { i \in 1..Len(futures) : futures[i].state = "taken" }
Running == { i \in 1..Len(futures) : futures[i].state = "running" }
Finished == { i \in 1..Len(futures) : futures[i].state = "finished" }

\* ---------------------------------------------------------------------- Init
Init ==
    /\ conversion_type \in ConversionTypes
    /\ max_workers \in 1..MaxWorkers
    /\ caseSensitive \in BOOLEAN
    /\ tree \in Trees
    /\ ValidTree(tree, caseSensitive)
    /\ Discovered(tree, extensions(conversion_type), caseSensitive, 1) <= MaxTasks
    /\ dirs \in {{}, {output_dir}}
    /\ outFiles = {}
    /\ pc = "start"
    /\ extIdx = 1
    /\ files = <<>>
    /\ conversion_tasks = <<>>
    /\ futures = <<>>
    /\ work_queue = <<>>
    /\ num_threads = 0
    /\ idle_semaphore = 0
    /\ collected = {}
    /\ successful = 0
    /\ failed = 0
    /\ pbar = 0
    /\ raised = "none"
    /\ reported = <<>>
    /\ mainPc = "imported"
    /\ answers = <<>>

\* ------------------------------------------------------------------- actions
\* Line 67: the output root is created; an OSError leaves the function.
MkOutputDir ==
    /\ pc = "start"
    /\ \E ok \in BOOLEAN :
         IF ok \/ output_dir \in dirs
         THEN /\ dirs' = mkdir(dirs, output_dir)
              /\ pc' = "glob"
              /\ UNCHANGED raised
         ELSE /\ pc' = "aborted"
              /\ raised' = "mkdir_root"
              /\ UNCHANGED dirs
    /\ UNCHANGED <<inputVars, outFiles, extIdx, files, conversion_tasks, poolVars,
                   tallyVars, reported>>

\* Lines 74-75: one iteration of the discovery loop.
Glob ==
    /\ pc = "glob"
    /\ extIdx <= Len(extensions(conversion_type))
    /\ \E found \in Orders(glob(tree, extensions(conversion_type)[extIdx], caseSensitive)) :
         files' = files \o found
    /\ extIdx' = extIdx + 1
    /\ UNCHANGED <<inputVars, dirs, outFiles, pc, conversion_tasks, poolVars,
                   tallyVars, raised, reported>>

\* Mutation: the emptiness test is left out.
AfterDiscovery_unchecked(fs) == "prepare"

\* Lines 77-79: where the function goes on after the discovery.
AfterDiscovery(fs) == IF fs = <<>> THEN "empty" ELSE "prepare"

\* Lines 77-81: with no file found the function returns.
CheckFiles ==
    /\ pc = "glob"
    /\ extIdx > Len(extensions(conversion_type))
    /\ pc' = AfterDiscovery(files)
    /\ UNCHANGED <<inputVars, dirs, outFiles, extIdx, files, conversion_tasks,
                   poolVars, tallyVars, raised, reported>>

\* Lines 85-93: one iteration of the task loop; an OSError of the parent's
\* mkdir leaves the function.
Prepare ==
    /\ pc = "prepare"
    /\ Len(conversion_tasks) < Len(files)
    /\ LET file_path == files[Len(conversion_tasks) + 1]
           output_path == MapOutput(file_path)
           parent == output_path.parts
       IN \E ok \in BOOLEAN :
            IF ok \/ parent \in dirs
            THEN /\ dirs' = mkdir(dirs, parent)
                 /\ conversion_tasks' =
                        Append(conversion_tasks, [input |-> file_path, output |-> output_path])
                 /\ UNCHANGED <<pc, raised>>
            ELSE /\ pc' = "aborted"
                 /\ raised' = "mkdir_parent"
                 /\ UNCHANGED <<dirs, conversion_tasks>>
    /\ UNCHANGED <<inputVars, outFiles, extIdx, files, poolVars, tallyVars, reported>>

\* Lines 96-102: the counters are reset and the executor is created.
CreatePool ==
    /\ pc = "prepare"
    /\ Len(conversion_tasks) = Len(files)
    /\ successful' = 0
    /\ failed' = 0
    /\ num_threads' = 0
    /\ idle_semaphore' = 0
    /\ work_queue' = <<>>
    /\ pc' = "submit"
    /\ UNCHANGED <<inputVars, dirs, outFiles, extIdx, files, conversion_tasks, futures,
                   collected, pbar, raised, reported>>

\* Mutation: no worker thread is ever started.
SpawnsThread_never(idle, n, mw) == FALSE

\* Mutation: a thread is started for every submission that finds no idle worker.
SpawnsThread_unbounded(idle, n, mw) == idle = 0

\* ThreadPoolExecutor._adjust_thread_count: a thread is started when no
\* worker is idle and the pool is below max_workers.
SpawnsThread(idle, n, mw) == idle = 0 /\ n < mw

NewFuture(fn) ==
    [state |-> "queued", fn |-> fn, error |-> FALSE, result |-> FALSE, exc |-> FALSE,
     calls |-> 0, yields |-> 0]

\* Lines 103-104: executor.submit of the next task of conversion_tasks.
Submit ==
    /\ pc = "submit"
    /\ Len(futures) < Len(conversion_tasks)
    /\ futures' = Append(futures, NewFuture(conversion_func(conversion_type)))
    /\ work_queue' = Append(work_queue, Len(futures) + 1)
    /\ idle_semaphore' = IF idle_semaphore > 0 THEN idle_semaphore - 1 ELSE 0
    /\ num_threads' = IF SpawnsThread(idle_semaphore, num_threads, max_workers)
                      THEN num_threads + 1 ELSE num_threads
    /\ UNCHANGED <<inputVars, dirs, outFiles, pc, extIdx, files, conversion_tasks,
                   tallyVars, raised, reported>>

\* Line 106: every task is submitted; the progress bar is opened.
OpenProgress ==
    /\ pc = "submit"
    /\ Len(futures) = Len(conversion_tasks)
    /\ pbar' = 0
    /\ pc' = "collect"
    /\ UNCHANGED <<inputVars, dirs, outFiles, extIdx, files, conversion_tasks, poolVars,
                   collected, successful, failed, raised, reported>>

\* Mutation: the newest work item is taken first.
Dequeue_lifo(q) == [item |-> Last(q), rest |-> Front(q)]

\* work_queue.get(): the oldest work item leaves the queue.
Dequeue(q) == [item |-> Head(q), rest |-> Tail(q)]

\* A worker thread without a work item takes one from the queue.
WorkerTake ==
    /\ work_queue # <<>>
    /\ Cardinality(Taken \cup Running) < num_threads
    /\ futures' = [futures EXCEPT ![Dequeue(work_queue).item].state = "taken"]
    /\ work_queue' = Dequeue(work_queue).rest
    /\ UNCHANGED <<inputVars, dirs, outFiles, pc, extIdx, files, conversion_tasks,
                   num_threads, idle_semaphore, tallyVars, raised, reported>>

\* work_item.run(): the worker that took an item calls the submitted function.
WorkerRun ==
    /\ \E i \in Taken :
         futures' = [futures EXCEPT ![i].state = "running", ![i].calls = @ + 1]
    /\ UNCHANGED <<inputVars, dirs, outFiles, pc, extIdx, files, conversion_tasks,
                   work_queue, num_threads, idle_semaphore, tallyVars, raised, reported>>

\* Mutation: the worker that ends a call adds to the counters itself.
WorkerFinish_counts ==
    /\ \E i \in Running, outcome \in Outcomes :
         LET r == Call(futures[i].fn, outcome)
         IN /\ futures' = [futures EXCEPT ![i].state = "finished",
                                          ![i].error = outcome # "ok",
                                          ![i].result = r.result,
                                          ![i].exc = r.exc]
            /\ outFiles' = IF outcome = "ok"
                           THEN outFiles \cup {conversion_tasks[i].output}
                           ELSE outFiles
            /\ successful' = IF r.result THEN successful + 1 ELSE successful
            /\ failed' = IF r.result THEN failed ELSE failed + 1
    /\ idle_semaphore' = idle_semaphore + 1
    /\ UNCHANGED <<inputVars, dirs, pc, extIdx, files, conversion_tasks, work_queue,
                   num_threads, collected, pbar, raised, reported>>

\* The conversion call of a running task ends; its future is set.
WorkerFinish ==
    /\ \E i \in Running, outcome \in Outcomes :
         LET r == Call(futures[i].fn, outcome)
         IN /\ futures' = [futures EXCEPT ![i].state = "finished",
                                          ![i].error = outcome # "ok",
                                          ![i].result = r.result,
                                          ![i].exc = r.exc]
            /\ outFiles' = IF outcome = "ok"
                           THEN outFiles \cup {conversion_tasks[i].output}
                           ELSE outFiles
    /\ idle_semaphore' = idle_semaphore + 1
    /\ UNCHANGED <<inputVars, dirs, pc, extIdx, files, conversion_tasks, work_queue,
                   num_threads, tallyVars, raised, reported>>

\* Mutation: only successes are counted.
Tally_no_else(success, s, f) == IF success THEN <<s + 1, f>> ELSE <<s, f>>

\* Mutation: the two counters are exchanged.
Tally_swapped(success, s, f) == IF success THEN <<s, f + 1>> ELSE <<s + 1, f>>

\* Lines 109-112: the counter a result goes to.
Tally(success, s, f) == IF success THEN <<s + 1, f>> ELSE <<s, f + 1>>

\* Mutation: the loop ends with the first completed future.
LoopDone_first_completed(c, total) == Cardinality(c) >= 1

\* as_completed is exhausted once every future was yielded.
LoopDone(c, total) == Cardinality(c) = total

\* Mutation: a finished future is yielded again.
Yieldable_again(fin, col) == fin

\* as_completed yields each finished future once.
Yieldable(fin, col) == fin \ col

\* Lines 107-113: as_completed yields a finished future; future.result()
\* returns the call's value or re-raises its exception.
Collect ==
    /\ pc = "collect"
    /\ \E i \in Yieldable(Finished, collected) :
         /\ futures' = [futures EXCEPT ![i].yields = @ + 1]
         /\ IF futures[i].exc
            THEN /\ raised' = "worker"
                 /\ pc' = "shutdown"
                 /\ UNCHANGED tallyVars
            ELSE LET t == Tally(futures[i].result, successful, failed)
                 IN /\ successful' = t[1]
                    /\ failed' = t[2]
                    /\ pbar' = pbar + 1
                    /\ collected' = collected \cup {i}
                    /\ pc' = IF LoopDone(collected', Len(conversion_tasks))
                             THEN "shutdown" ELSE "collect"
                    /\ UNCHANGED raised
    /\ UNCHANGED <<inputVars, dirs, outFiles, extIdx, files, conversion_tasks, work_queue,
                   num_threads, idle_semaphore, reported>>

\* Line 102, end of the with block: shutdown(wait=True) joins the workers,
\* which first drain the queue; a pending exception then propagates.
Shutdown ==
    /\ pc = "shutdown"
    /\ work_queue = <<>>
    /\ Taken \cup Running = {}
    /\ pc' = IF raised = "none" THEN "report" ELSE "aborted"
    /\ UNCHANGED <<inputVars, dirs, outFiles, extIdx, files, conversion_tasks, poolVars,
                   tallyVars, raised, reported>>

\* Lines 115-117: the tally is printed and the function returns.
Report ==
    /\ pc = "report"
    /\ reported' = <<successful, failed>>
    /\ pc' = "done"
    /\ UNCHANGED <<inputVars, dirs, outFiles, extIdx, files, conversion_tasks, poolVars,
                   tallyVars, raised>>

Next ==
    \/ MkOutputDir
    \/ Glob
    \/ CheckFiles
    \/ Prepare
    \/ CreatePool
    \/ Submit
    \/ OpenProgress
    \/ WorkerTake
    \/ WorkerRun
    \/ WorkerFinish
    \/ Collect
    \/ Shutdown
    \/ Report

Spec == Init /\ [][Next]_vars

\* The steps of the thread that runs process_directory.
MainThread ==
    \/ MkOutputDir \/ Glob \/ CheckFiles \/ Prepare \/ CreatePool
    \/ Submit \/ OpenProgress \/ Collect \/ Shutdown \/ Report

\* Fair scheduling: the main thread and the worker threads go on when they
\* can, and every conversion call returns.
FairSpec ==
    /\ Spec
    /\ WF_vars(MainThread)
    /\ WF_vars(WorkerTake)
    /\ WF_vars(WorkerRun)
    /\ WF_vars(WorkerFinish)

\* ------------------------------------------------------------- orchestrator
\* Line 150.
MAX_WORKERS == 16

\* The one-character answer U+017F (latin small letter long s), written by
\* its code point.
LongS == "U+017F"

\* str.upper() on the answers that occur.
Upper(s) ==
    CASE s \in {"HEIC", "heic"} -> "HEIC"
      [] s \in {"CR2", "cr2"} -> "CR2"
      [] s \in {"PNG", "png"} -> "PNG"
      [] s \in {"S", "s", LongS} -> "S"
      [] s \in {"N", "n"} -> "N"
      [] OTHER -> s

\* What the user may type at the four prompts.
TypeAnswers == {"HEIC", "cr2", "png"}
InputAnswers == {input_dir, <<"nowhere">>}
OutputAnswers == {output_dir, <<"nowhere", "out">>}
ConfirmAnswers == {"S", "s", LongS, "N", ""}

PromptTrees == { t \in SUBSET FileUniverse : Cardinality(t) <= MaxPromptFiles }

\* Line 124.
ValidType(a) == Upper(a) \in {"HEIC", "CR2"}

\* Path.exists(): the working directory, the input root, and every directory
\* made or holding a file exist.
Exists(p) ==
    \/ p = <<>>
    \/ p = input_dir
    \/ p \in dirs
    \/ \E f \in tree : p \in Ancestors(f.parts)

\* Path.parent.
Parent(p) == Front(p)

\* Mutation: every answer but N goes on.
Proceeds_unless_n(confirmation) == Upper(confirmation) # "N"

\* Line 148.
Proceeds(confirmation) == Upper(confirmation) = "S"

\* An assignment in the __main__ block.
Bind(env, name, value) == (name :> value) @@ env

\* The module is run as a script: no prompt was answered, process_directory
\* was not called.
MainInit ==
    /\ mainPc = "ask_type"
    /\ answers = <<>>
    /\ conversion_type = ""
    /\ max_workers = 0
    /\ caseSensitive \in BOOLEAN
    /\ tree \in PromptTrees
    /\ ValidTree(tree, caseSensitive)
    /\ \A ct \in {"HEIC", "CR2"} :
         Discovered(tree, extensions(ct), caseSensitive, 1) <= MaxTasks
    /\ dirs \in {{}, {output_dir}}
    /\ outFiles = {}
    /\ pc = "idle"
    /\ extIdx = 1
    /\ files = <<>>
    /\ conversion_tasks = <<>>
    /\ futures = <<>>
    /\ work_queue = <<>>
    /\ num_threads = 0
    /\ idle_semaphore = 0
    /\ collected = {}
    /\ successful = 0
    /\ failed = 0
    /\ pbar = 0
    /\ raised = "none"
    /\ reported = <<>>

\* Lines 121-125: one iteration of the conversion type prompt.
AskType ==
    /\ mainPc = "ask_type"
    /\ \E a \in TypeAnswers :
         /\ answers' = Bind(answers, "conversion_type", a)
         /\ mainPc' = IF ValidType(a) THEN "ask_input" ELSE "ask_type"
    /\ UNCHANGED <<conversion_type, max_workers, caseSensitive, tree, dirs, outFiles, pc,
                   extIdx, files, conversion_tasks, poolVars, tallyVars, raised, reported>>

\* Lines 128-132: one iteration of the input path prompt.
AskInput ==
    /\ mainPc = "ask_input"
    /\ \E a \in InputAnswers :
         /\ answers' = Bind(answers, "input_dir", a)
         /\ mainPc' = IF Exists(a) THEN "ask_output" ELSE "ask_input"
    /\ UNCHANGED <<conversion_type, max_workers, caseSensitive, tree, dirs, outFiles, pc,
                   extIdx, files, conversion_tasks, poolVars, tallyVars, raised, reported>>

\* Lines 135-139: one iteration of the output path prompt.
AskOutput ==
    /\ mainPc = "ask_output"
    /\ \E a \in OutputAnswers :
         /\ answers' = Bind(answers, "output_dir", a)
         /\ mainPc' = IF Exists(Parent(a)) THEN "confirm" ELSE "ask_output"
    /\ UNCHANGED <<conversion_type, max_workers, caseSensitive, tree, dirs, outFiles, pc,
                   extIdx, files, conversion_tasks, poolVars, tallyVars, raised, reported>>

\* Lines 142-156 and 161-162: the confirmation is asked; process_directory is
\* called with the upper-cased type and MAX_WORKERS, or the block ends.
Confirm ==
    /\ mainPc = "confirm"
    /\ \E a \in ConfirmAnswers :
         /\ answers' = Bind(answers, "confirmation", a)
         /\ IF Proceeds(a)
            THEN /\ mainPc' = "running"
                 /\ conversion_type' = Upper(answers["conversion_type"])
                 /\ max_workers' = MAX_WORKERS
                 /\ pc' = "start"
            ELSE /\ mainPc' = "cancelled"
                 /\ UNCHANGED <<conversion_type, max_workers, pc>>
    /\ UNCHANGED <<caseSensitive, tree, dirs, outFiles, extIdx, files, conversion_tasks,
                   poolVars, tallyVars, raised, reported>>

\* Lines 156-160: process_directory returns and the elapsed time is printed,
\* or its exception ends the script.
MainReturn ==
    /\ mainPc = "running"
    /\ pc \in {"done", "empty", "aborted"}
    /\ mainPc' = IF pc = "aborted" THEN "raised" ELSE "finished"
    /\ UNCHANGED <<conversion_type, max_workers, caseSensitive, tree, answers, dirs,
                   outFiles, pc, extIdx, files, conversion_tasks, poolVars, tallyVars,
                   raised, reported>>

MainNext ==
    \/ AskType
    \/ AskInput
    \/ AskOutput
    \/ Confirm
    \/ MainReturn
    \/ Next

MainSpec == MainInit /\ [][MainNext]_vars

\* -------------------------------------------------------- standalone scripts
\* unic_codes/HEIC_to_PNG.py line 43 and unic_codes/CR2_to_PNG.py lines 49-50:
\* the patterns each script globs, in its order.
HEIC_to_PNG_extensions == <<"heic", "HEIC", "heif", "HEIF">>
CR2_to_PNG_extensions == <<"CR2", "cr2">>

\* The script that stands for a conversion type.
Standalone(ct) == IF ct = "HEIC" THEN "HEIC_to_PNG" ELSE "CR2_to_PNG"

StandaloneExtensions(script) ==
    IF script = "HEIC_to_PNG" THEN HEIC_to_PNG_extensions ELSE CR2_to_PNG_extensions

\* How often the script's globs list a file: once per pattern it matches.
StandaloneListed(script, t, cs, f) ==
    LET exts == StandaloneExtensions(script)
    IN Cardinality({ k \in 1..Len(exts) : f \in glob(t, exts[k], cs) })

\* HEIC_to_PNG.py lines 56-57 and CR2_to_PNG.py lines 62-63: the task of a
\* listed file.
StandaloneTask(script, file_path) ==
    LET relative_path == relative_to(file_path, input_dir)
    IN [input |-> file_path,
        output |-> File(output_dir \o relative_path.parts,
                        with_suffix(relative_path.name, "png"))]

\* The tasks the script prepares, as a set.
StandaloneTasks(script, t, cs) ==
    { StandaloneTask(script, f) : f \in { g \in t : StandaloneListed(script, t, cs, g) > 0 } }

\* HEIC_to_PNG.py lines 12-27 and CR2_to_PNG.py lines 11-34: the scripts'
\* conversion functions.
HEIC_to_PNG_convert_heic_to_png(outcome) ==
    IF outcome = "ok" THEN Returned(TRUE) ELSE Returned(FALSE)

CR2_to_PNG_convert_cr2_to_png(outcome) ==
    IF outcome = "ok" THEN Returned(TRUE) ELSE Returned(FALSE)

StandaloneCall(script, outcome) ==
    IF script = "HEIC_to_PNG" THEN HEIC_to_PNG_convert_heic_to_png(outcome)
    ELSE CR2_to_PNG_convert_cr2_to_png(outcome)

\* HEIC_to_PNG.py lines 71-77 and CR2_to_PNG.py lines 77-83: the counters
\* after the results of a set of calls were collected; results[i] is what
\* call i handed to its future.
StandaloneCounts(results) ==
    [successful |-> Cardinality({ i \in DOMAIN results : results[i].result }),
     failed |-> Cardinality({ i \in DOMAIN results : ~results[i].result })]

\* ==================================================================== claims
Dispatched == 1..Len(futures)
HasReturned == pc \in {"report", "done"}
OutputOf(i) == conversion_tasks[i].output
Failures == { i \in Dispatched : futures[i].error }

\* C1: when a run that dispatched tasks completes, successful + failed is the
\* number of dispatched tasks, which is the number of discovered entries,
\* a file listed twice counting twice.
C1_TallyCoversDispatched ==
    (pc = "done" /\ Len(futures) > 0) =>
        /\ successful + failed = Len(futures)
        /\ Len(futures) = Len(conversion_tasks)
        /\ Len(conversion_tasks) = Len(files)
        /\ reported = <<successful, failed>>

\* C1 witness: a completed run whose discovery listed a file twice, with a
\* success and a failure.
C1_Witness ==
    /\ pc = "done"
    /\ successful >= 1
    /\ failed >= 1
    /\ \E i, j \in 1..Len(files) : i # j /\ files[i] = files[j]

\* C2: never more than max_workers conversions run at once, and a submitted
\* task that is neither running nor finished is in the queue.
C2_AtMostNRunning ==
    /\ Cardinality(Running) <= max_workers
    /\ num_threads <= max_workers
    /\ \A i \in Dispatched :
         futures[i].state = "queued" <=> \E k \in 1..Len(work_queue) : work_queue[k] = i

\* C2 witness: the pool is full and a task waits in the queue.
C2_Witness ==
    /\ Cardinality(Running) = max_workers
    /\ work_queue # <<>>
    /\ max_workers = MaxWorkers

\* C3: no two distinct discovered files are mapped to the same output path.
C3_MappingInjective ==
    \A i, j \in 1..Len(files) :
        files[i] # files[j] => MapOutput(files[i]) # MapOutput(files[j])

\* C4: no two tasks write the same output path; in particular no two
\* running conversions have the same output path.
C4_OneWriterPerOutput ==
    \A i, j \in Running : i # j => OutputOf(i) # OutputOf(j)

\* C5: a failing conversion aborts nothing: once the run has ended, every
\* dispatched task has run and was counted, the failures as failed and the
\* others as successful, and the output of every success was written.
C5_FailureIsolated ==
    (pc \in {"done", "aborted"} /\ Len(futures) > 0) =>
        /\ pc = "done"
        /\ Len(futures) = Len(conversion_tasks)
        /\ \A i \in Dispatched : futures[i].state = "finished" /\ i \in collected
        /\ failed = Cardinality(Failures)
        /\ successful = Cardinality(Dispatched \ Failures)
        /\ \A i \in Dispatched \ Failures : OutputOf(i) \in outFiles

\* C5 witness: a completed run in which a conversion failed and another one,
\* dispatched after it, succeeded.
C5_Witness ==
    /\ pc = "done"
    /\ \E i, j \in Dispatched : i < j /\ futures[i].error /\ ~futures[j].error

\* C6: a failure to create a task's output parent directory does not abort
\* the run.
C6_MkdirFailureIsTaskFailure ==
    raised = "mkdir_parent" => pc # "aborted"

\* C7: the function returns, and the tally is printed, only when every task
\* was dispatched, has finished and was counted, with nothing queued or running.
C7_ReturnAfterAllCollected ==
    (HasReturned \/ reported # <<>>) =>
        /\ Len(futures) = Len(conversion_tasks)
        /\ \A i \in 1..Len(conversion_tasks) :
             futures[i].state = "finished" /\ i \in collected
        /\ work_queue = <<>>
        /\ Running = {}
        /\ pbar = Len(conversion_tasks)

\* C7 witness: a run with more tasks than workers has returned.
C7_Witness ==
    /\ pc = "done"
    /\ Len(conversion_tasks) > max_workers

\* C8: no conversion call hands an exception to its future: a failed
\* conversion yields False, a conversion without failure True, and result
\* collection never raises.
C8_AdapterNeverRaises ==
    /\ raised # "worker"
    /\ \A i \in Finished : ~futures[i].exc /\ (futures[i].result <=> ~futures[i].error)

\* C8 witness: a run has completed in which every conversion failed, one of
\* them at least, and each was collected as a False result.
C8_Witness ==
    /\ pc = "done"
    /\ \E i \in collected : futures[i].error /\ ~futures[i].result
    /\ failed = Len(conversion_tasks)

\* C9: the parent directory of a dispatched task's output path exists.
C9_ParentExistsBeforeDispatch ==
    \A i \in Dispatched : OutputOf(i).parts \in dirs

\* C9 witness: a conversion runs whose output lies in a subdirectory of the
\* output root.
C9_Witness ==
    \E i \in Running : Len(OutputOf(i).parts) > Len(output_dir)

\* C10: the output path of every task is the output root, the input's
\* directories below the input root, and the input's name with its
\* extension replaced by "png".
C10_OutputPathReplacesExtension ==
    \A k \in 1..Len(conversion_tasks) :
        LET t == conversion_tasks[k]
        IN /\ IsPrefix(input_dir, t.input.parts)
           /\ t.output.parts =
                 output_dir \o SubSeq(t.input.parts, Len(input_dir) + 1, Len(t.input.parts))
           /\ t.output.name = Append(Front(t.input.name), "png")

\* C11: the submitted function is called once for every dispatched task,
\* never again after a failure, and every future is yielded once: at most
\* once at any time, and exactly once when the run has completed.
C11_ConsumedExactlyOnce ==
    /\ \A i \in Dispatched :
         /\ futures[i].calls <= 1
         /\ futures[i].yields <= 1
         /\ futures[i].calls = 1 <=> futures[i].state \in {"running", "finished"}
         /\ futures[i].yields = 1 <=> i \in collected
    /\ pc = "done" =>
         /\ Len(futures) = Len(conversion_tasks)
         /\ \A i \in Dispatched : futures[i].calls = 1 /\ futures[i].yields = 1

\* C11 witness: a run of several tasks has completed in which a conversion
\* failed and was called once.
C11_Witness ==
    /\ pc = "done"
    /\ Len(futures) >= 2
    /\ \E i \in Dispatched : futures[i].error /\ futures[i].calls = 1 /\ futures[i].yields = 1

\* C12: a collection step takes one future, adds one to successful when its
\* result is true and one to failed otherwise, leaves the other counter, and
\* advances the progress bar by one; so the progress is always successful +
\* failed, and it is the number of tasks once the loop has ended.
C12_Step ==
    collected' # collected =>
        \E i \in collected' \ collected :
            /\ collected' = collected \cup {i}
            /\ pbar' = pbar + 1
            /\ IF futures[i].result
               THEN successful' = successful + 1 /\ failed' = failed
               ELSE successful' = successful /\ failed' = failed + 1

C12_OneCounterPerCompletion ==
    /\ [](pbar = successful + failed)
    /\ [](pc \in {"report", "done"} => pbar = Len(conversion_tasks))
    /\ [][C12_Step]_vars

\* C12 witness: the loop is under way with a success and a failure counted
\* and a task still to collect.
C12_Witness ==
    /\ pc = "collect"
    /\ successful >= 1
    /\ failed >= 1
    /\ pbar < Len(conversion_tasks)

\* C13: the counters never decrease, only a collection step of the main
\* thread changes them, no step of a worker does, and every collected
\* future is counted.
C13_Step ==
    /\ successful' >= successful
    /\ failed' >= failed
    /\ (successful' # successful \/ failed' # failed) =>
          /\ pc = "collect"
          /\ collected' # collected
          /\ successful' + failed' = successful + failed + 1
    /\ (\E i \in Dispatched : futures'[i].state # futures[i].state) =>
          UNCHANGED <<successful, failed>>

C13_CountersOnlyByAggregation ==
    /\ [](successful + failed = Cardinality(collected))
    /\ [][C13_Step]_vars

\* C13 witness: a result is counted while one conversion still runs and
\* another has finished and is not collected yet.
C13_Witness ==
    /\ successful + failed >= 1
    /\ Running # {}
    /\ Finished \ collected # {}

\* C14: when the discovery has ended with no file, the function only
\* returns: no task, no future, no worker thread, no conversion output, no
\* tally and no counting.
C14_EmptyShortCircuits ==
    (extIdx > Len(extensions(conversion_type)) /\ files = <<>>) =>
        /\ pc \in {"glob", "empty"}
        /\ conversion_tasks = <<>>
        /\ futures = <<>>
        /\ work_queue = <<>>
        /\ num_threads = 0
        /\ outFiles = {}
        /\ reported = <<>>
        /\ successful = 0 /\ failed = 0 /\ pbar = 0
        /\ raised = "none"

\* C14 witness: the function has returned for a tree that holds files, none
\* of them matching.
C14_Witness ==
    /\ pc = "empty"
    /\ tree # {}

\* C15 as stated: the calls start in submission order: a call never runs
\* (or has run) while the call of a task submitted earlier has not started.
Started(i) == futures[i].state \in {"running", "finished"}

C15_StartsInSubmissionOrder ==
    \A i, j \in Dispatched : (i < j /\ Started(j)) => Started(i)

\* C15 amended: futures are created in the order of conversion_tasks and
\* the workers take the work items in that order: the queue holds the
\* waiting tasks in increasing order and no task has left the queue while an
\* earlier one waits; with a single worker the calls start in that order too.
C15_TakenInSubmissionOrder ==
    /\ \A k \in 1..Len(work_queue) :
         /\ work_queue[k] \in Dispatched
         /\ \A l \in 1..Len(work_queue) : k < l => work_queue[k] < work_queue[l]
    /\ \A i, j \in Dispatched :
         (i < j /\ futures[j].state # "queued") => futures[i].state # "queued"
    /\ max_workers = 1 => C15_StartsInSubmissionOrder

\* C15 witness: a later task was run and collected while an earlier one,
\* taken by another worker, has not started its call.
C15_Witness ==
    \E i, j \in Dispatched :
        /\ i < j
        /\ futures[i].state = "taken"
        /\ j \in collected

\* C16: under fair scheduling, once a task is dispatched the run goes on to
\* its return with every task of the run finished and none left queued or
\* held by a worker; and every run ends.
AllTasksFinished ==
    /\ Len(futures) = Len(conversion_tasks)
    /\ \A i \in Dispatched : futures[i].state = "finished"
    /\ work_queue = <<>>

C16_EveryTaskCompletes ==
    /\ (Len(futures) > 0) ~> (pc = "done" /\ AllTasksFinished)
    /\ <>(pc \in {"done", "empty", "aborted"})

\* C16 witness: a run with one worker and at least three tasks has returned.
C16_Witness ==
    /\ pc = "done"
    /\ max_workers = 1
    /\ Len(futures) >= 3
    /\ AllTasksFinished

\* C17 as stated: once the discovery has ended, a file of the tree is listed
\* if and only if its name ends with one of the listed extensions, letter
\* for letter.
DiscoveryDone == extIdx > Len(extensions(conversion_type))
Listed(f) == \E k \in 1..Len(files) : files[k] = f
EndsWith(name, ext) == Len(name) >= 2 /\ name[Len(name)] = ext
EndsWithUpToCase(name, ext) == Len(name) >= 2 /\ Lower(name[Len(name)]) = Lower(ext)
ListedExtensions == { extensions(conversion_type)[k] : k \in 1..Len(extensions(conversion_type)) }

C17_DiscoveryCaseRespecting ==
    DiscoveryDone =>
        \A f \in tree : Listed(f) <=> \E ext \in ListedExtensions : EndsWith(f.name, ext)

\* C17 amended: the discovery matches as Path.glob does on the platform.
\* Where glob is case-sensitive, a file is listed if and only if its name
\* ends with a listed extension letter for letter; where it is not, if and
\* only if it does so up to case.  Only files of the tree are listed, each
\* once for every listed extension it matches.
C17_DiscoveryFollowsPlatformCase ==
    DiscoveryDone =>
        /\ \A k \in 1..Len(files) : files[k] \in tree
        /\ \A f \in tree :
             LET hits == { ext \in ListedExtensions :
                             IF caseSensitive THEN EndsWith(f.name, ext)
                             ELSE EndsWithUpToCase(f.name, ext) }
             IN Cardinality({ k \in 1..Len(files) : files[k] = f }) = Cardinality(hits)

\* C17 witness: with case-insensitive matching the discovery of the HEIC
\* family has listed the file x.Heic.
C17_Witness ==
    /\ DiscoveryDone
    /\ ~caseSensitive
    /\ conversion_type = "HEIC"
    /\ Listed(File(<<"in">>, <<"x", "Heic">>))

\* C18: every task of a run is submitted with the same function, and that
\* function belongs to the family of the extensions listed for the
\* discovery and of every file it converts, whatever conversion_type is.
C18_AdapterMatchesExtensions ==
    \A i \in Dispatched :
        LET fn == futures[i].fn
            family == Lower(Last(conversion_tasks[i].input.name))
        IN /\ fn = futures[1].fn
           /\ fn \in {"convert_heic_to_png", "convert_cr2_to_png"}
           /\ fn = "convert_heic_to_png" <=> "heic" \in ListedExtensions
           /\ fn = "convert_cr2_to_png" <=> "cr2" \in ListedExtensions
           /\ fn = "convert_heic_to_png" <=> family \in {"heic", "heif"}
           /\ fn = "convert_cr2_to_png" <=> family = "cr2"

\* C18 witness: with a conversion_type that is neither 'HEIC' nor 'CR2' a
\* CR2 file is being converted by the CR2 function.
C18_Witness ==
    /\ conversion_type = "heic"
    /\ \E i \in Running : futures[i].fn = "convert_cr2_to_png"

\* ---- C19
Bound(name) == name \in DOMAIN answers
Prompting == mainPc \in {"ask_type", "ask_input", "ask_output", "confirm"}
Called == mainPc \in {"running", "finished", "raised"}
IsSOrs(a) == a \in {"S", "s"}
UpperIsS(a) == Upper(a) = "S"

\* What every state of the script satisfies when Yes is the test of the
\* confirmation answer: the prompts were passed in their order with valid
\* answers, and nothing of process_directory happened unless it was called.
C19_State(Yes(_)) ==
    /\ mainPc # "imported"
    /\ mainPc # "ask_type" => Bound("conversion_type") /\ ValidType(answers["conversion_type"])
    /\ Bound("input_dir") => mainPc # "ask_type"
    /\ mainPc \notin {"ask_type", "ask_input"} =>
         Bound("input_dir") /\ Exists(answers["input_dir"])
    /\ Bound("output_dir") => mainPc \notin {"ask_type", "ask_input"}
    /\ mainPc \notin {"ask_type", "ask_input", "ask_output"} =>
         Bound("output_dir") /\ Exists(Parent(answers["output_dir"]))
    /\ Bound("confirmation") <=> (Called \/ mainPc = "cancelled")
    /\ Called => Yes(answers["confirmation"])
    /\ mainPc = "cancelled" => ~Yes(answers["confirmation"])
    /\ pc # "idle" <=> Called
    /\ ~Called => /\ files = <<>>
                  /\ conversion_tasks = <<>>
                  /\ futures = <<>>
                  /\ outFiles = {}
                  /\ extIdx = 1

\* What every step of the script satisfies: an invalid answer leaves the
\* prompt where it is, process_directory starts in the step that answers the
\* confirmation with yes and gets the upper-cased type, no step follows a
\* cancellation, and before the call no directory is made.
C19_Step(Yes(_)) ==
    /\ mainPc # "cancelled"
    /\ (mainPc = "ask_type" /\ ~ValidType(answers'["conversion_type"])) => mainPc' = "ask_type"
    /\ (mainPc = "ask_input" /\ ~Exists(answers'["input_dir"])) => mainPc' = "ask_input"
    /\ (mainPc = "ask_output" /\ ~Exists(Parent(answers'["output_dir"]))) =>
         mainPc' = "ask_output"
    /\ Prompting => /\ mainPc' \in {"ask_type", "ask_input", "ask_output", "confirm"} =>
                         UNCHANGED pc
                    /\ UNCHANGED <<dirs, outFiles, files, conversion_tasks, futures>>
    /\ (pc = "idle" /\ pc' # "idle") =>
         /\ mainPc = "confirm"
         /\ Yes(answers'["confirmation"])
         /\ pc' = "start"
         /\ conversion_type' = Upper(answers["conversion_type"])
         /\ conversion_type' \in {"HEIC", "CR2"}
    /\ (mainPc = "confirm" /\ ~Yes(answers'["confirmation"])) =>
         /\ mainPc' = "cancelled"
         /\ UNCHANGED <<pc, dirs, outFiles, files, conversion_tasks, futures>>

\* C19 as stated: process_directory is started only after a valid conversion
\* type, an existing input path, an output path with an existing parent and
\* the confirmation S or s were entered in this order; every other
\* confirmation ends the script with no discovery, directory or conversion;
\* an invalid answer to one of the first three prompts asks it again.
C19_StartedOnlyAfterSOrs == [](C19_State(IsSOrs)) /\ [][C19_Step(IsSOrs)]_vars

\* C19, amended: the same, with the confirmation being any answer whose
\* upper-casing is S, which the long s (U+017F) is as well.
C19_StartedOnlyAfterUpperS == [](C19_State(UpperIsS)) /\ [][C19_Step(UpperIsS)]_vars

\* A script run that was given the type cr2, was confirmed with s, converted
\* a CR2 file and returned.
C19_Witness ==
    /\ mainPc = "finished"
    /\ pc = "done"
    /\ answers["conversion_type"] = "cr2"
    /\ answers["confirmation"] = "s"
    /\ conversion_type = "CR2"
    /\ successful >= 1

\* ---- C20
Prepared == pc \in {"submit", "collect", "shutdown", "report", "done"}

\* The outcome the conversion of task i had in this run.
OutcomesOf(i) == { o \in Outcomes : (o # "ok") = futures[i].error }

\* What the standalone script's calls hand to their futures when every call
\* has the outcome it had in this run.
StandaloneResults ==
    [i \in 1..Len(futures) |->
        StandaloneCall(Standalone(conversion_type), CHOOSE o \in OutcomesOf(i) : TRUE)]

\* C20: run with 'HEIC' or 'CR2', process_directory prepares the tasks the
\* standalone script of that type prepares on the same tree, each as often,
\* returns without a task exactly when the script does, and with the same
\* outcome of every conversion prints the counts the script prints.
C20_EquivalentToStandalone ==
    conversion_type \in {"HEIC", "CR2"} =>
        LET script == Standalone(conversion_type)
        IN /\ Prepared =>
                /\ { conversion_tasks[i] : i \in 1..Len(conversion_tasks) }
                       = StandaloneTasks(script, tree, caseSensitive)
                /\ \A f \in tree :
                     Cardinality({ i \in 1..Len(conversion_tasks) :
                                     conversion_tasks[i].input = f })
                         = StandaloneListed(script, tree, caseSensitive, f)
           /\ pc = "empty" => StandaloneTasks(script, tree, caseSensitive) = {}
           /\ pc = "done" =>
                /\ StandaloneTasks(script, tree, caseSensitive) # {}
                /\ \A i \in 1..Len(futures) : \A o \in OutcomesOf(i) :
                     StandaloneCall(script, o) = Call(futures[i].fn, o)
                /\ reported = << StandaloneCounts(StandaloneResults).successful,
                                 StandaloneCounts(StandaloneResults).failed >>

\* A CR2 run on a case-sensitive platform that listed x.cr2 before a/x.CR2,
\* the reverse of the standalone script's order, and ended with one success
\* and one failure.
C20_Witness ==
    /\ pc = "done"
    /\ conversion_type = "CR2"
    /\ caseSensitive
    /\ Len(conversion_tasks) = 2
    /\ conversion_tasks[1].input = File(<<"in">>, <<"x", "cr2">>)
    /\ conversion_tasks[2].input = File(<<"in", "a">>, <<"x", "CR2">>)
    /\ reported = <<1, 1>>

====
